---- MODULE Spec2Model ----
(***************************************************************************)
(* Model of src/app.py, the Streamlit stock dashboard.                     *)
(*                                                                         *)
(* One run of the script is a sequence of steps: the overview loop         *)
(* (lines 36-42), the sidebar and the "Analyze Stocks" handler (lines      *)
(* 44-83, the batch loop one iteration per step), the market overview      *)
(* (lines 86-95) and the detail section of the selected stock (lines       *)
(* 98-233).  Streamlit re-runs the script on every interaction (Rerun).    *)
(*                                                                         *)
(* Python values are tagged records: [t |-> "num", v |-> 3],               *)
(* [t |-> "str", v |-> "x"], [t |-> "null"] (None), [t |-> "nan"] (a blank *)
(* spreadsheet cell), [t |-> "obj", v |-> f] (a dict, f a function from    *)
(* its keys), [t |-> "series", v |-> s] (a dict of date -> value, kept as  *)
(* the sequence of its values in insertion order), [t |-> "list", v |-> s] *)
(* and [t |-> "raise", v |-> kind] for an expression that raised.          *)
(***************************************************************************)
EXTENDS Integers, Sequences, FiniteSets, TLC

VARIABLES
    data,             \* the snapshot: sequence of [key, value], keys distinct
    pc,               \* position of the script
    df,               \* the table: sequence of rows
    stock_df,         \* the sheet read by the handler
    symbols,          \* the handler's symbol list
    results,          \* the handler's result rows
    i,                \* number of loop iterations completed
    progress_bar,     \* the progress widget: Unset or [num, den]
    status_text,      \* the status widget
    messages,         \* st.success / st.warning / st.error calls, in order
    calls,            \* symbols passed to analyze_stock by the handler
    selected_symbol,  \* value of the "Select Stock" selectbox
    metrics,          \* the three overview metrics
    displayed,        \* the table shown by st.dataframe: Unset or a list of rows
    comparison_data,  \* rows of the Prediction-vs-Last section
    chart,            \* the earnings history chart: "none", "chart" or "warning"
    error             \* the uncaught exception that ended the run, or "none"

vars == <<data, pc, df, stock_df, symbols, results, i, progress_bar,
          status_text, messages, calls, selected_symbol, metrics, displayed,
          comparison_data, chart, error>>

(* Bounds *)

MaxSheetLen == 3

MaxValue == 3

(* Python values *)

Null == [t |-> "null"]
NaN == [t |-> "nan"]
Unset == [t |-> "unset"]
Num(n) == [t |-> "num", v |-> n]
Str(s) == [t |-> "str", v |-> s]
Obj(f) == [t |-> "obj", v |-> f]
Series(s) == [t |-> "series", v |-> s]
List(s) == [t |-> "list", v |-> s]
Raise(kind) == [t |-> "raise", v |-> kind]
EmptyDict == [k \in {} |-> Null]

IsRaise(x) == x.t = "raise"

\* bool(x)
Truthy(x) ==
    CASE x.t = "null" -> FALSE
      [] x.t = "num" -> x.v # 0
      [] x.t = "str" -> x.v # ""
      [] x.t = "obj" -> DOMAIN x.v # {}
      [] x.t = "series" -> Len(x.v) > 0
      [] x.t = "list" -> Len(x.v) > 0
      [] OTHER -> TRUE

\* x[k] for a string key k
GetItem(x, k) ==
    IF IsRaise(x) THEN x
    ELSE IF x.t = "obj"
         THEN IF k \in DOMAIN x.v THEN x.v[k] ELSE Raise("KeyError")
         ELSE Raise("TypeError")

\* k in x for a string key k; no string of the model contains a key name
In(k, x) ==
    IF IsRaise(x) THEN x
    ELSE IF x.t = "obj" THEN Num(IF k \in DOMAIN x.v THEN 1 ELSE 0)
    ELSE IF x.t = "str" THEN Num(0)
    ELSE Raise("TypeError")

\* data.get(symbol)
DictGet(d, k) ==
    IF \E n \in 1..Len(d) : d[n].key = k
    THEN d[CHOOSE n \in 1..Len(d) : d[n].key = k].value
    ELSE Null

Keys(d) == {d[n].key : n \in 1..Len(d)}

(* analyze_stock *)

RowFields == <<"Symbol", "Last Close", "Volume", "RSI", "Trend",
               "Next Earnings", "Confidence Score">>

\* analyze_stock with Volume read from last_close
analyze_stock_Swapped(d, symbol) ==
    LET stock_data == DictGet(d, symbol)
        technical == GetItem(stock_data, "technical")
        earnings == GetItem(stock_data, "earnings")
        row == ("Symbol" :> Str(symbol))
            @@ ("Last Close" :> GetItem(technical, "last_close"))
            @@ ("Volume" :> GetItem(technical, "last_close"))
            @@ ("RSI" :> GetItem(technical, "rsi"))
            @@ ("Trend" :> GetItem(technical, "trend"))
            @@ ("Next Earnings" :> GetItem(earnings, "next_earnings_prediction"))
            @@ ("Confidence Score" :>
                  GetItem(GetItem(earnings, "prediction_metadata"),
                          "confidence_score"))
    IN IF ~Truthy(stock_data) THEN Null
       ELSE IF \E f \in DOMAIN row : IsRaise(row[f]) THEN Null
       ELSE Obj(row)

analyze_stock(d, symbol) ==
    LET stock_data == DictGet(d, symbol)
        technical == GetItem(stock_data, "technical")
        earnings == GetItem(stock_data, "earnings")
        row == ("Symbol" :> Str(symbol))
            @@ ("Last Close" :> GetItem(technical, "last_close"))
            @@ ("Volume" :> GetItem(technical, "last_volume"))
            @@ ("RSI" :> GetItem(technical, "rsi"))
            @@ ("Trend" :> GetItem(technical, "trend"))
            @@ ("Next Earnings" :> GetItem(earnings, "next_earnings_prediction"))
            @@ ("Confidence Score" :>
                  GetItem(GetItem(earnings, "prediction_metadata"),
                          "confidence_score"))
    IN IF ~Truthy(stock_data) THEN Null
       ELSE IF \E f \in DOMAIN row : IsRaise(row[f]) THEN Null
       ELSE Obj(row)

(* The snapshots and sheets the model runs on *)

SnapshotKeys == {"AAA", "BBB"}
SheetSymbols == {"AAA", "BBB", "ZZZ"}

Without(f, k) == [x \in DOMAIN f \ {k} |-> f[x]]

Tech(close, rsi, trend) ==
    [last_close |-> Num(close), last_volume |-> Num(1200), rsi |-> Num(rsi),
     trend |-> Str(trend), ma_20 |-> Num(close - 1), ma_50 |-> Num(close - 2),
     macd_line |-> Num(2), macd_signal |-> Num(1)]

Earn(conf) ==
    [next_earnings_prediction |-> Str("2025-05-01"),
     historical_dates |-> List(<<"2025-02-01">>),
     prediction_metadata |-> Obj([confidence_score |-> Num(conf)])]

Historical ==
    ("Total Revenue" :> Series(<<Num(10), Num(0)>>))
    @@ ("Net Income" :> Series(<<Num(4)>>))
    @@ ("Operating Income" :> Series(<< >>))

Predictions ==
    ("Total Revenue" :> Num(50)) @@ ("Net Income" :> Num(6))
    @@ ("Operating Income" :> Num(7)) @@ ("Gross Profit" :> Null)
    @@ ("EPS" :> Num(3))

Complete == Obj([technical |-> Obj(Tech(100, 61, "Bullish")), earnings |-> Obj(Earn(80))])

WithFundamental ==
    Obj([technical |-> Obj(Tech(50, 40, "Bearish")),
         earnings |-> Obj(Without(Earn(65), "historical_dates")),
         fundamental |-> Obj([historical |-> Obj(Historical),
                              predictions |-> Obj(Predictions)])])

PredNoHist ==
    Obj([technical |-> Obj(Tech(70, 55, "Bullish")), earnings |-> Obj(Earn(50)),
         fundamental |-> Obj([predictions |-> Obj(Predictions)])])

NoRsi ==
    Obj([technical |-> Obj(Without(Tech(30, 0, "Bearish"), "rsi")),
         earnings |-> Obj(Earn(20))])

NoMA ==
    Obj([technical |-> Obj(Without(Tech(90, 45, "Bearish"), "ma_20")),
         earnings |-> Obj(Earn(30))])

NullRsi ==
    Obj([technical |-> Obj([Tech(20, 0, "Bullish") EXCEPT !.rsi = Null]),
         earnings |-> Obj(Earn(40))])

NullTrend ==
    Obj([technical |-> Obj([Tech(60, 52, "") EXCEPT !.trend = Null]),
         earnings |-> Obj(Earn(45))])

NullVolume ==
    Obj([technical |-> Obj([Tech(80, 33, "Bearish") EXCEPT !.last_volume = Null]),
         earnings |-> Obj(Earn(70))])

TechString == Obj([technical |-> Str("not-an-object")])

ErrorOnly == Obj([error |-> Str("No data found")])

Records == {Complete, WithFundamental, PredNoHist, NoRsi, NoMA, NullRsi,
            NullTrend, NullVolume, TechString, ErrorOnly, Obj(EmptyDict)}

Entry(k, r) == [key |-> k, value |-> r]

Snapshots ==
    {<< >>}
    \cup {<<Entry(k, r)>> : k \in SnapshotKeys, r \in Records}
    \cup {<<Entry(p[1], r1), Entry(p[2], r2)>> :
            p \in {q \in SnapshotKeys \X SnapshotKeys : q[1] # q[2]},
            r1 \in Records, r2 \in Records}

Cells == {Str(s) : s \in SheetSymbols} \cup {NaN}

Columns == UNION {[1..n -> Cells] : n \in 0..MaxSheetLen}

Sheet(name, cells) == [t |-> "df", v |-> (name :> cells)]

\* sheets with a Symbol column, and one sheet without
Sheets == {Sheet("Symbol", c) : c \in Columns} \cup {Sheet("Ticker", <<Str("AAA")>>)}

(* pandas helpers *)

\* Series.dropna()
DropNa(s) == SelectSeq(s, LAMBDA c : c # NaN)

\* unique() that keeps every occurrence
Unique_Keep(s) == s

RECURSIVE Unique(_)
\* Series.unique(): first occurrences, in order
Unique(s) ==
    IF s = << >> THEN << >>
    ELSE LET init == Unique(SubSeq(s, 1, Len(s) - 1))
             last == s[Len(s)]
         IN IF \E n \in 1..Len(init) : init[n] = last THEN init
            ELSE Append(init, last)

Message(level, text) == [level |-> level, text |-> text]

Progress(num, den) == [num |-> num, den |-> den]

\* the progress computed from the loop index itself
fraction_Index(n, total) == Progress(n, total)

\* line 73: (i + 1) / len(symbols)
fraction(n, total) == Progress(n + 1, total)

(* Initial state: the snapshot is loaded (lines 10-11), nothing has run *)

Fresh ==
    /\ pc = "start"
    /\ df = << >>
    /\ stock_df = Unset
    /\ symbols = << >>
    /\ results = << >>
    /\ i = 0
    /\ progress_bar = Unset
    /\ status_text = Unset
    /\ messages = << >>
    /\ calls = << >>
    /\ selected_symbol = Unset
    /\ metrics = Unset
    /\ displayed = Unset
    /\ comparison_data = << >>
    /\ chart = "none"
    /\ error = "none"

Init ==
    /\ data \in Snapshots
    /\ Fresh

\* a record whose only compared metric has the given prediction and last value
Compared(predicted, last_historical) ==
    Obj([technical |-> Obj(Tech(100, 61, "Bullish")), earnings |-> Obj(Earn(80)),
         fundamental |->
            Obj([historical |->
                   Obj("Net Income" :> Series(<<Num(1), Num(last_historical)>>)),
                 predictions |-> Obj("Net Income" :> Num(predicted))])])

Values == (-MaxValue)..MaxValue

InitChange ==
    /\ data \in {<<Entry("AAA", Compared(p, l))>> : p \in Values, l \in Values}
    /\ Fresh

\* snapshots for the batch loop: listed symbols with and without a row
InitBatch ==
    /\ data \in {<< >>, <<Entry("AAA", Complete)>>,
                  <<Entry("AAA", Complete), Entry("BBB", TechString)>>,
                  <<Entry("BBB", NullRsi), Entry("AAA", WithFundamental)>>}
    /\ Fresh

(* Lines 36-42: the overview loop *)

RECURSIVE OverviewRows_Break(_, _)
\* the loop leaving at the first symbol without a row
OverviewRows_Break(d, n) ==
    IF n = 0 THEN << >>
    ELSE LET result == analyze_stock(d, d[n].key)
             stocks == OverviewRows_Break(d, n - 1)
         IN IF Len(stocks) < n - 1 THEN stocks
            ELSE IF Truthy(result) THEN Append(stocks, result.v) ELSE stocks

RECURSIVE OverviewRows(_, _)
OverviewRows(d, n) ==
    IF n = 0 THEN << >>
    ELSE LET result == analyze_stock(d, d[n].key)
             stocks == OverviewRows(d, n - 1)
         IN IF Truthy(result) THEN Append(stocks, result.v) ELSE stocks

LoadOverview ==
    /\ pc = "start"
    /\ df' = OverviewRows(data, Len(data))
    /\ pc' = "sidebar"
    /\ UNCHANGED <<data, stock_df, symbols, results, i, progress_bar,
                   status_text, messages, calls, selected_symbol, metrics,
                   displayed, comparison_data, chart, error>>

(* Lines 44-83: the sidebar and the Analyze Stocks handler *)

\* lines 48, 82-83: stocklist.xlsx does not exist
SidebarNoFile ==
    /\ pc = "sidebar"
    /\ messages' = Append(messages, Message("warning", "upload stocklist.xlsx"))
    /\ pc' = "dashboard"
    /\ UNCHANGED <<data, df, stock_df, symbols, results, i, progress_bar,
                   status_text, calls, selected_symbol, metrics, displayed,
                   comparison_data, chart, error>>

\* lines 48-55: the file exists, the button was not pressed
SidebarIdle ==
    /\ pc = "sidebar"
    /\ pc' = "dashboard"
    /\ UNCHANGED <<data, df, stock_df, symbols, results, i, progress_bar,
                   status_text, messages, calls, selected_symbol, metrics,
                   displayed, comparison_data, chart, error>>

\* lines 55-57, 80-81: read_excel raises
ReadSheetError ==
    /\ pc = "sidebar"
    /\ messages' = Append(messages, Message("error", "Error loading sheet"))
    /\ pc' = "dashboard"
    /\ UNCHANGED <<data, df, stock_df, symbols, results, i, progress_bar,
                   status_text, calls, selected_symbol, metrics, displayed,
                   comparison_data, chart, error>>

\* the handler creating the progress bar before it checks the columns
ReadSheetNoColumn_Progress ==
    /\ pc = "sidebar"
    /\ \E sheet \in Sheets :
        /\ "Symbol" \notin DOMAIN sheet.v
        /\ stock_df' = sheet
    /\ progress_bar' = Progress(0, 1)
    /\ messages' = Append(messages, Message("error", "no Symbol column"))
    /\ pc' = "dashboard"
    /\ UNCHANGED <<data, df, symbols, results, i, status_text,
                   calls, selected_symbol, metrics, displayed,
                   comparison_data, chart, error>>

\* lines 55-59: the selected sheet has no Symbol column
ReadSheetNoColumn ==
    /\ pc = "sidebar"
    /\ \E sheet \in Sheets :
        /\ "Symbol" \notin DOMAIN sheet.v
        /\ stock_df' = sheet
    /\ messages' = Append(messages, Message("error", "no Symbol column"))
    /\ pc' = "dashboard"
    /\ UNCHANGED <<data, df, symbols, results, i, progress_bar, status_text,
                   calls, selected_symbol, metrics, displayed,
                   comparison_data, chart, error>>

\* lines 55-66: the sheet has a Symbol column; the loop is set up
BatchStart ==
    /\ pc = "sidebar"
    /\ \E sheet \in Sheets :
        /\ "Symbol" \in DOMAIN sheet.v
        /\ stock_df' = sheet
        /\ symbols' = Unique(DropNa(sheet.v["Symbol"]))
    /\ messages' = Append(messages, [level |-> "success", text |-> "Analyzing stocks",
                                     n |-> Len(symbols')])
    /\ results' = << >>
    /\ progress_bar' = Progress(0, 1)
    /\ status_text' = Null
    /\ i' = 0
    /\ pc' = "batch"
    /\ UNCHANGED <<data, df, calls, selected_symbol, metrics, displayed,
                   comparison_data, chart, error>>

\* lines 68-73: one iteration of the loop
BatchStep ==
    /\ pc = "batch"
    /\ i < Len(symbols)
    /\ LET symbol == symbols[i + 1]
           result == analyze_stock(data, symbol.v)
       IN /\ status_text' = [symbol |-> symbol, n |-> i + 1, of |-> Len(symbols)]
          /\ calls' = Append(calls, symbol)
          /\ results' = IF Truthy(result) THEN Append(results, result.v) ELSE results
    /\ progress_bar' = fraction(i, Len(symbols))
    /\ i' = i + 1
    /\ UNCHANGED <<data, pc, df, stock_df, symbols, messages, selected_symbol,
                   metrics, displayed, comparison_data, chart, error>>

\* the handler replacing the table whatever the results
BatchEnd_Always ==
    /\ pc = "batch"
    /\ i = Len(symbols)
    /\ df' = results
    /\ IF results # << >>
       THEN messages' = Append(messages, Message("success", "Analysis complete"))
       ELSE messages' = Append(messages, Message("warning", "No valid stock data found"))
    /\ pc' = "dashboard"
    /\ UNCHANGED <<data, stock_df, symbols, results, i, progress_bar,
                   status_text, calls, selected_symbol, metrics, displayed,
                   comparison_data, chart, error>>

\* lines 75-79: the loop is over
BatchEnd ==
    /\ pc = "batch"
    /\ i = Len(symbols)
    /\ IF results # << >>
       THEN /\ df' = results
            /\ messages' = Append(messages, Message("success", "Analysis complete"))
       ELSE /\ df' = df
            /\ messages' = Append(messages, Message("warning", "No valid stock data found"))
    /\ pc' = "dashboard"
    /\ UNCHANGED <<data, stock_df, symbols, results, i, progress_bar,
                   status_text, calls, selected_symbol, metrics, displayed,
                   comparison_data, chart, error>>

(* Lines 86-95: the stock selector and the market overview *)

Column(t, f) == [n \in 1..Len(t) |-> t[n][f]]

NonNull(s) == SelectSeq(s, LAMBDA x : x.t # "null")

RECURSIVE SumSeq(_)
SumSeq(s) == IF s = << >> THEN 0 ELSE s[1].v + SumSeq(Tail(s))

\* round(Series.mean(), 2), in hundredths; NaN when every value is null
MeanRound2(col) ==
    LET xs == NonNull(col)
    IN IF xs = << >> THEN NaN
       ELSE [t |-> "hundredths",
             v |-> (200 * SumSeq(xs) + Len(xs)) \div (2 * Len(xs))]

\* sort order of the trend labels of the model
LabelOrder == <<"Bearish", "Bullish">>

Rank(label) == CHOOSE n \in 1..Len(LabelOrder) : LabelOrder[n] = label.v

Count(s, x) == Cardinality({n \in 1..Len(s) : s[n] = x})

\* Series.mode(): the most frequent non-null values, sorted
Mode(col) ==
    LET xs == NonNull(col)
        top == {x \in {xs[n] : n \in 1..Len(xs)} :
                  \A n \in 1..Len(xs) : Count(xs, xs[n]) <= Count(xs, x)}
    IN [r \in 1..Cardinality(top) |->
          CHOOSE x \in top : Cardinality({y \in top : Rank(y) < Rank(x)}) = r - 1]

\* a before b in a descending sort on Last Close, nulls last
Ordered(a, b) ==
    \/ b["Last Close"].t = "null"
    \/ /\ a["Last Close"].t # "null"
       /\ a["Last Close"].v >= b["Last Close"].v

\* DataFrame.sort_values("Last Close", ascending=False): the sort is not
\* stable, so rows with equal keys come in either order
SortValues(t) ==
    LET idx == 1..Len(t)
        perms == {p \in [idx -> idx] : \A a, b \in idx : a # b => p[a] # p[b]}
    IN {[n \in idx |-> t[p[n]]] : p \in
          {q \in perms : \A a, b \in idx : a < b => Ordered(t[q[a]], t[q[b]])}}

Overview ==
    /\ pc = "dashboard"
    /\ IF df = << >>
       THEN \* line 86: an empty DataFrame has no Symbol column
            /\ error' = "KeyError"
            /\ pc' = "crashed"
            /\ UNCHANGED <<selected_symbol, metrics, displayed>>
       ELSE /\ \E option \in {df[n]["Symbol"] : n \in 1..Len(df)} :
                 selected_symbol' = option
            /\ LET average == MeanRound2(Column(df, "RSI"))
                   mode == Mode(Column(df, "Trend"))
               IN IF mode = << >>
                  THEN \* line 93: mode()[0] of an empty result
                       /\ metrics' = [total |-> Len(df), rsi |-> average]
                       /\ error' = "KeyError"
                       /\ pc' = "crashed"
                       /\ UNCHANGED displayed
                  ELSE /\ metrics' = [total |-> Len(df), rsi |-> average,
                                      trend |-> mode[1]]
                       /\ \E shown \in SortValues(df) : displayed' = List(shown)
                       /\ pc' = "details"
                       /\ UNCHANGED error
    /\ UNCHANGED <<data, df, stock_df, symbols, results, i, progress_bar,
                   status_text, messages, calls, comparison_data, chart>>

(* Lines 98-233: the detail section of the selected stock *)

\* f"{x:,}"
FormatThousands(x) ==
    IF IsRaise(x) THEN x
    ELSE IF x.t = "num" THEN x
    ELSE IF x.t = "str" THEN Raise("ValueError")
    ELSE Raise("TypeError")

\* round(x, 2)
Round2(x) ==
    IF IsRaise(x) THEN x
    ELSE IF x.t = "num" THEN x
    ELSE Raise("TypeError")

\* the first exception of a sequence of evaluations, or "none"
FirstError(steps) ==
    IF \E n \in 1..Len(steps) : IsRaise(steps[n])
    THEN steps[CHOOSE n \in 1..Len(steps) :
                 /\ IsRaise(steps[n])
                 /\ \A m \in 1..(n - 1) : ~IsRaise(steps[m])].v
    ELSE "none"

\* lines 105-116
BasicInfo(stock) ==
    LET technical == GetItem(stock, "technical")
        earnings == GetItem(stock, "earnings")
    IN FirstError(<<GetItem(technical, "last_close"),
                    FormatThousands(GetItem(technical, "last_volume")),
                    GetItem(technical, "trend"),
                    GetItem(earnings, "next_earnings_prediction"),
                    GetItem(GetItem(earnings, "prediction_metadata"),
                            "confidence_score")>>)

\* pd.to_datetime(x) followed by len(): every date string of the model parses
ToDatetime(x) ==
    IF IsRaise(x) THEN x
    ELSE IF x.t \in {"list", "str"} THEN x
    ELSE Raise("TypeError")

\* lines 119-139: the chart, or the warning of the except branch
EarningsChart(stock) ==
    LET earnings == GetItem(stock, "earnings")
        next_earnings == GetItem(earnings, "next_earnings_prediction")
        steps == <<ToDatetime(GetItem(earnings, "historical_dates")),
                   IF Truthy(next_earnings) THEN ToDatetime(next_earnings)
                   ELSE next_earnings>>
    IN IF FirstError(steps) = "none" THEN "chart" ELSE "warning"

\* lines 142-162
TechnicalIndicators(stock) ==
    LET technical == GetItem(stock, "technical")
    IN FirstError(<<Round2(GetItem(technical, "rsi")),
                    Round2(GetItem(technical, "ma_20")),
                    Round2(GetItem(technical, "ma_50")),
                    GetItem(technical, "macd_line"),
                    GetItem(technical, "macd_signal")>>)

\* a and b, where a and b are the results of `in`
And(a, b) == IF IsRaise(a) THEN a ELSE IF Truthy(a) THEN b ELSE a

\* line 168
metrics_list == <<"Total Revenue", "Gross Profit", "Operating Income", "Net Income">>

\* pd.DataFrame.from_dict(x, orient="index", ...)
FromDict(x) ==
    IF IsRaise(x) THEN x
    ELSE IF x.t \in {"series", "obj"} THEN x
    ELSE Raise("AttributeError")

\* lines 165-185
FundamentalAnalysis(stock) ==
    LET cond == And(In("fundamental", stock),
                    In("historical", GetItem(stock, "fundamental")))
        fundamental == GetItem(GetItem(stock, "fundamental"), "historical")
        frames == [n \in 1..Len(metrics_list) |->
                     LET present == In(metrics_list[n], fundamental)
                     IN IF IsRaise(present) THEN present
                        ELSE IF Truthy(present)
                        THEN FromDict(GetItem(fundamental, metrics_list[n]))
                        ELSE present]
    IN IF IsRaise(cond) THEN cond.v
       ELSE IF Truthy(cond) THEN FirstError(frames)
       ELSE "none"

(* Lines 200-214: change_pct *)

RECURSIVE GCD(_, _)
GCD(a, b) == IF b = 0 THEN a ELSE GCD(b, a % b)

Abs(a) == IF a < 0 THEN -a ELSE a

\* the quotient a / b as a fraction in lowest terms
Frac(a, b) ==
    LET g == GCD(Abs(a), Abs(b))
        sign == IF b < 0 THEN -1 ELSE 1
    IN [t |-> "frac", num |-> sign * (a \div g), den |-> sign * (b \div g)]

\* a - b
Sub(a, b) ==
    IF IsRaise(a) THEN a
    ELSE IF IsRaise(b) THEN b
    ELSE IF a.t = "num" /\ b.t = "num" THEN Num(a.v - b.v)
    ELSE Raise("TypeError")

\* a / b
Div(a, b) ==
    IF IsRaise(a) THEN a
    ELSE IF IsRaise(b) THEN b
    ELSE IF a.t = "num" /\ b.t = "num"
         THEN IF b.v = 0 THEN Raise("ZeroDivisionError") ELSE Frac(a.v, b.v)
         ELSE Raise("TypeError")

\* x * 100
Times100(x) ==
    IF IsRaise(x) THEN x
    ELSE IF x.t = "frac" THEN Frac(x.num * 100, x.den)
    ELSE Raise("TypeError")

\* x != 0
NotZero(x) == ~(x.t = "num" /\ x.v = 0)

\* change_pct without the zero guard
change_pct_Unguarded(predicted, last_historical) ==
    Times100(Div(Sub(predicted, last_historical), last_historical))

\* lines 207-208
change_pct(predicted, last_historical) ==
    IF NotZero(last_historical)
    THEN Times100(Div(Sub(predicted, last_historical), last_historical))
    ELSE Num(0)

\* list(historical.values())[-1]
LastValue(historical) ==
    IF historical.t = "series" THEN historical.v[Len(historical.v)]
    ELSE Raise("AttributeError")

\* iteration order of the metric dicts of the model
MetricOrder == <<"Total Revenue", "Gross Profit", "Operating Income",
                 "Net Income", "EPS">>

\* line 191
ValidPredictions(predictions) ==
    SelectSeq(MetricOrder,
              LAMBDA k : k \in DOMAIN predictions.v /\ predictions.v[k].t # "null")

RECURSIVE Comparison(_, _, _)
\* lines 200-214: the rows for the first n valid predictions, or the exception
Comparison(stock, valid, n) ==
    IF n = 0 THEN List(<< >>)
    ELSE LET before == Comparison(stock, valid, n - 1)
             metric == valid[n]
             all == GetItem(GetItem(stock, "fundamental"), "historical")
             present == In(metric, all)
             historical == GetItem(all, metric)
             last_historical == LastValue(historical)
             predicted == GetItem(GetItem(GetItem(stock, "fundamental"),
                                          "predictions"), metric)
             change == change_pct(predicted, last_historical)
         IN IF IsRaise(before) THEN before
            ELSE IF IsRaise(present) THEN present
            ELSE IF ~Truthy(present) THEN before
            ELSE IF ~Truthy(historical) THEN before
            ELSE IF IsRaise(last_historical) THEN last_historical
            ELSE IF IsRaise(change) THEN change
            ELSE List(Append(before.v,
                   ("Metric" :> metric) @@ ("Last Historical" :> last_historical)
                   @@ ("Predicted" :> predicted) @@ ("Change (%)" :> change)))

\* lines 188-233
PredictionsSection(stock) ==
    LET cond == And(In("fundamental", stock),
                    In("predictions", GetItem(stock, "fundamental")))
        predictions == GetItem(GetItem(stock, "fundamental"), "predictions")
        valid == ValidPredictions(predictions)
    IN IF IsRaise(cond) THEN cond
       ELSE IF ~Truthy(cond) THEN List(<< >>)
       ELSE IF predictions.t # "obj" THEN Raise("AttributeError")
       ELSE Comparison(stock, valid, Len(valid))

Details ==
    /\ pc = "details"
    /\ LET selected_stock == DictGet(data, selected_symbol.v)
           basic == BasicInfo(selected_stock)
           technical == TechnicalIndicators(selected_stock)
           fundamental == FundamentalAnalysis(selected_stock)
           predictions == PredictionsSection(selected_stock)
       IN IF ~Truthy(selected_stock)
          THEN /\ pc' = "done"
               /\ UNCHANGED <<chart, comparison_data, error>>
          ELSE IF basic # "none"
          THEN /\ error' = basic
               /\ pc' = "crashed"
               /\ UNCHANGED <<chart, comparison_data>>
          ELSE /\ chart' = EarningsChart(selected_stock)
               /\ IF technical # "none"
                  THEN error' = technical /\ pc' = "crashed" /\ UNCHANGED comparison_data
                  ELSE IF fundamental # "none"
                  THEN error' = fundamental /\ pc' = "crashed" /\ UNCHANGED comparison_data
                  ELSE IF IsRaise(predictions)
                  THEN error' = predictions.v /\ pc' = "crashed" /\ UNCHANGED comparison_data
                  ELSE /\ comparison_data' = predictions.v
                       /\ pc' = "done"
                       /\ UNCHANGED error
    /\ UNCHANGED <<data, df, stock_df, symbols, results, i, progress_bar,
                   status_text, messages, calls, selected_symbol, metrics,
                   displayed>>

(* Streamlit runs the script again on the next interaction *)

Rerun ==
    /\ pc \in {"done", "crashed"}
    /\ pc' = "start"
    /\ df' = << >>
    /\ stock_df' = Unset
    /\ symbols' = << >>
    /\ results' = << >>
    /\ i' = 0
    /\ progress_bar' = Unset
    /\ status_text' = Unset
    /\ messages' = << >>
    /\ calls' = << >>
    /\ selected_symbol' = Unset
    /\ metrics' = Unset
    /\ displayed' = Unset
    /\ comparison_data' = << >>
    /\ chart' = "none"
    /\ error' = "none"
    /\ UNCHANGED data

Next ==
    \/ LoadOverview
    \/ SidebarNoFile
    \/ SidebarIdle
    \/ ReadSheetError
    \/ ReadSheetNoColumn
    \/ BatchStart
    \/ BatchStep
    \/ BatchEnd
    \/ Overview
    \/ Details
    \/ Rerun

Spec == Init /\ [][Next]_vars

SpecChange == InitChange /\ [][Next]_vars

\* the script is sequential: a loop that can take its next step takes it
FairBatch == InitBatch /\ [][Next]_vars /\ WF_vars(BatchStep) /\ WF_vars(BatchEnd)

(* Properties *)

\* the symbols of a table, in row order
SymbolsOf(t) == [n \in 1..Len(t) |-> t[n]["Symbol"].v]

NoDuplicates(s) == \A a, b \in 1..Len(s) : a # b => s[a] # s[b]

HasObj(x, k) == x.t = "obj" /\ k \in DOMAIN x.v /\ x.v[k].t = "obj"

\* technical and earnings are objects and the given technical leaves and
\* both earnings leaves are present
HasLeaves(r, leaves) ==
    /\ HasObj(r, "technical")
    /\ HasObj(r, "earnings")
    /\ leaves \subseteq DOMAIN r.v.technical.v
    /\ "next_earnings_prediction" \in DOMAIN r.v.earnings.v
    /\ HasObj(r.v.earnings, "prediction_metadata")
    /\ "confidence_score" \in DOMAIN r.v.earnings.v.prediction_metadata.v

CompleteRecord(r) == HasLeaves(r, {"last_close", "last_volume", "rsi", "trend"})

LacksRsi(r) ==
    /\ HasLeaves(r, {"last_close", "last_volume", "trend"})
    /\ "rsi" \notin DOMAIN r.v.technical.v

\* technical or earnings is absent or is not an object
Invalid(r) == ~(HasObj(r, "technical") /\ HasObj(r, "earnings"))

\* the row carries the record's values in the fields other than RSI
CarriesOver(row, k, r) ==
    /\ row["Symbol"] = Str(k)
    /\ row["Last Close"] = r.v.technical.v.last_close
    /\ row["Volume"] = r.v.technical.v.last_volume
    /\ row["Trend"] = r.v.technical.v.trend
    /\ row["Next Earnings"] = r.v.earnings.v.next_earnings_prediction
    /\ row["Confidence Score"] = r.v.earnings.v.prediction_metadata.v.confidence_score

RowsFor(t, k) == {n \in 1..Len(t) : t[n]["Symbol"] = Str(k)}

\* the handler ran its loop to the end in this run
BatchDone == pc \in {"dashboard", "details", "done", "crashed"} /\ stock_df # Unset
             /\ "Symbol" \in DOMAIN stock_df.v

\* C1: a run never ends in an uncaught exception.
C1_NoUncaughtException == pc # "crashed" /\ error = "none"

\* C2: after the overview loop, every symbol whose record lacks only the
\* leaf technical.rsi has a row, with RSI "no value" (None) and the other
\* fields carried over from the record.
C2_MissingRsiKeepsRow ==
    pc = "sidebar" =>
        \A n \in 1..Len(data) :
            LacksRsi(data[n].value) =>
                \E m \in RowsFor(df, data[n].key) :
                    /\ df[m]["RSI"] = Null
                    /\ CarriesOver(df[m], data[n].key, data[n].value)

\* C3: after the overview loop, a symbol whose technical or earnings section
\* is absent or not an object has no row, every complete symbol of the same
\* snapshot has its row, and the snapshot {AAA: complete, BBB: {technical:
\* "not-an-object"}} gives exactly one row, for AAA.
C3_InvalidRecordSkippedAlone ==
    pc = "sidebar" =>
        /\ \A n \in 1..Len(data) :
              Invalid(data[n].value) =>
                 /\ RowsFor(df, data[n].key) = {}
                 /\ \A m \in 1..Len(data) :
                       CompleteRecord(data[m].value) => RowsFor(df, data[m].key) # {}
        /\ data = <<Entry("AAA", Complete), Entry("BBB", TechString)>>
              => SymbolsOf(df) = <<"AAA">>

C3_Witness ==
    /\ pc = "sidebar"
    /\ data = <<Entry("BBB", TechString), Entry("AAA", Complete)>>
    /\ SymbolsOf(df) = <<"AAA">>

\* C4: after the overview loop, every symbol with complete technical and
\* earnings sections has exactly one row, and each of the seven fields of the
\* row equals the record's value.
C4_CompleteRecordOneRow ==
    pc = "sidebar" =>
        \A n \in 1..Len(data) :
            CompleteRecord(data[n].value) =>
                /\ Cardinality(RowsFor(df, data[n].key)) = 1
                /\ \A m \in RowsFor(df, data[n].key) :
                      /\ DOMAIN df[m] = {RowFields[f] : f \in 1..Len(RowFields)}
                      /\ df[m]["RSI"] = data[n].value.v.technical.v.rsi
                      /\ CarriesOver(df[m], data[n].key, data[n].value)

C4_Witness ==
    /\ pc = "sidebar"
    /\ Len(data) = 2
    /\ \A n \in 1..2 : CompleteRecord(data[n].value)
    /\ data[1].value # data[2].value
    /\ Len(df) = 2

\* C5: at every point of a run the table, and the table shown, hold only
\* symbols that are keys of the snapshot, each at most once.
C5_TableWithinSnapshot ==
    /\ {df[n]["Symbol"].v : n \in 1..Len(df)} \subseteq Keys(data)
    /\ NoDuplicates(SymbolsOf(df))
    /\ displayed # Unset =>
          /\ {displayed.v[n]["Symbol"].v : n \in 1..Len(displayed.v)} \subseteq Keys(data)
          /\ NoDuplicates(SymbolsOf(displayed.v))

\* the batch replaced the table; the sheet lists a symbol twice and a symbol
\* that is not in the snapshot
C5_Witness ==
    /\ BatchDone
    /\ displayed # Unset
    /\ df = results
    /\ df # << >>
    /\ ~NoDuplicates(DropNa(stock_df.v["Symbol"]))
    /\ \E n \in 1..Len(symbols) : symbols[n].v \notin Keys(data)

\* C6: when the batch loop is over, no listed symbol that is absent from the
\* snapshot has a row, and a message reports how many listed symbols were
\* absent.
C6_SkippedCountReported ==
    BatchDone =>
        /\ \A n \in 1..Len(symbols) :
              symbols[n].v \notin Keys(data) => RowsFor(results, symbols[n].v) = {}
        /\ LET skipped == {n \in 1..Len(symbols) : symbols[n].v \notin Keys(data)}
           IN skipped # {} =>
                 \E n \in 1..Len(messages) :
                     /\ messages[n].text = "skipped"
                     /\ messages[n].n = Cardinality(skipped)

\* C7: in the batch loop the progress after the i-th symbol is i/N, whether
\* or not the symbol gave a row; each iteration handles one more symbol and
\* raises the progress; the closing message of a non-empty list is shown
\* only once every symbol was handled and the progress is N/N; and a loop
\* that started reaches that end.
C7_ProgressPerSymbol ==
    /\ [](pc = "batch" /\ i > 0 => progress_bar = Progress(i, Len(symbols)))
    /\ [][pc = "batch" /\ pc' = "batch" =>
            /\ Len(calls') = Len(calls) + 1
            /\ progress_bar'.num * progress_bar.den > progress_bar.num * progress_bar'.den]_vars
    /\ [](BatchDone /\ symbols # << >> =>
            /\ messages[Len(messages)].text \in {"Analysis complete", "No valid stock data found"}
            /\ progress_bar.num = progress_bar.den
            /\ Len(calls) = Len(symbols))
    /\ (pc = "batch") ~>
          (BatchDone /\ (symbols # << >> => progress_bar = Progress(Len(symbols), Len(symbols))))

C7_Witness ==
    /\ pc = "batch"
    /\ i = 3
    /\ Len(symbols) = 3
    /\ Len(results) = 1
    /\ progress_bar = Progress(3, 3)

\* C8: every row of the comparison has Change (%) equal to
\* (predicted - last) / last * 100 when last is not zero and to 0 when last
\* is zero, and no run ends in a division by zero.
C8_ChangePercent ==
    /\ error # "ZeroDivisionError"
    /\ \A n \in 1..Len(comparison_data) :
          LET row == comparison_data[n]
              last == row["Last Historical"].v
              predicted == row["Predicted"].v
              change == row["Change (%)"]
          IN IF last = 0 THEN change = Num(0)
             ELSE /\ change.t = "frac"
                  /\ change.den # 0
                  /\ change.num * last = (predicted - last) * 100 * change.den

C8_Witness ==
    /\ pc = "done"
    /\ \E n \in 1..Len(comparison_data) :
          /\ comparison_data[n]["Last Historical"] = Num(0)
          /\ comparison_data[n]["Predicted"] = Num(MaxValue)
          /\ comparison_data[n]["Change (%)"] = Num(0)

\* C9: once a sheet without a Symbol column was read, an error message is
\* shown, analyze_stock was not called by the handler, no progress or status
\* is shown and the table is the overview table.
C9_NoColumnNoComputation ==
    (stock_df # Unset /\ "Symbol" \notin DOMAIN stock_df.v) =>
        /\ \E n \in 1..Len(messages) : messages[n].level = "error"
        /\ calls = << >>
        /\ results = << >>
        /\ progress_bar = Unset
        /\ status_text = Unset
        /\ df = OverviewRows(data, Len(data))

C9_Witness ==
    /\ pc = "details"
    /\ stock_df # Unset
    /\ "Symbol" \notin DOMAIN stock_df.v
    /\ Len(df) = 2

\* position of the first occurrence of a cell in the sheet
FirstAt(cells, c) == CHOOSE n \in 1..Len(cells) : cells[n] = c /\ \A m \in 1..(n - 1) : cells[m] # c

Normalizes(c) == c # NaN /\ Truthy(analyze_stock(data, c.v))

C10_WitnessKept ==
    /\ pc = "done"
    /\ BatchDone
    /\ symbols # << >>
    /\ results = << >>
    /\ Len(df) = 2

====
